---- MODULE Spec2Model ----
(***************************************************************************)
(* The RTF tokenizer of rtf-grimoire: the nom parsers of src/raw.rs, the   *)
(* Token type, its serializer and the ordered alternation read_token of    *)
(* src/tokenizer.rs, and the many0 loop of read_token_stream / parse.      *)
(* Bytes are the integers 0..255, byte strings are sequences of them.      *)
(* An Option is a sequence of length 0 (None) or 1 (Some).                 *)
(***************************************************************************)
EXTENDS Integers, Sequences, FiniteSets, TLC

VARIABLES input, i, acc, pc, pass, first

vars == <<input, i, acc, pc, pass, first>>

(***************************************************************************)
(* Bytes the grammar names.                                                *)
(***************************************************************************)
BSLASH == 92
LBRACE == 123
RBRACE == 125
CR == 13
LF == 10
SP == 32
APOS == 39
MINUS == 45
PLUS == 43
ZERO == 48
I32_MAX == 2147483647

BIN == <<98, 105, 110>>

None == <<>>
Some(x) == <<x>>

Drop(s, n) == SubSeq(s, n + 1, Len(s))
Prefix(s, n) == SubSeq(s, 1, n)

\* Length of the longest prefix of s whose bytes all satisfy P.
RunLen(P(_), s) ==
    CHOOSE n \in 0..Len(s) :
        /\ \A k \in 1..n : P(s[k])
        /\ (n = Len(s) \/ ~P(s[n + 1]))

\* nom IResult: Ok((rest, out)) or Err(Err::Error(Error { input, code })).
Ok(rest, out) == [ok |-> TRUE, rest |-> rest, out |-> out]
Err(at, code) == [ok |-> FALSE, rest |-> at, code |-> code]

IsAlpha(b) == (b >= 65 /\ b <= 90) \/ (b >= 97 /\ b <= 122)
IsDigit(b) == b >= 48 /\ b <= 57
is_hex_digit(b) == IsDigit(b) \/ (b >= 65 /\ b <= 70) \/ (b >= 97 /\ b <= 102)

(***************************************************************************)
(* nom combinators, complete (non-streaming) versions, as src/raw.rs uses  *)
(* them.  A parser applied to its input is the IResult it returns.         *)
(***************************************************************************)
tag(t, s) ==
    IF Len(s) >= Len(t) /\ Prefix(s, Len(t)) = t
    THEN Ok(Drop(s, Len(t)), t)
    ELSE Err(s, "Tag")

\* opt(p): a recoverable error of p becomes None, nothing consumed.
opt(r, s) == IF r.ok THEN Ok(r.rest, Some(r.out)) ELSE Ok(s, None)

\* alt((a, b)): a if it succeeds, else b (whose error is the one returned).
alt(a, b) == IF a.ok THEN a ELSE b

\* map(p, f)
map(r, F(_)) == IF r.ok THEN Ok(r.rest, F(r.out)) ELSE r

\* Sequencing inside tuple / pair / preceded: the next parser K runs on the
\* result r of the one before it, whose error ends the sequence.
Then(r, K(_)) == IF r.ok THEN K(r) ELSE r

\* The first n bytes of s, at least one, else an error with the given code.
SplitAt(s, n, code) ==
    IF n >= 1 THEN Ok(Drop(s, n), Prefix(s, n)) ELSE Err(s, code)

alpha1(s) == SplitAt(s, RunLen(IsAlpha, s), "Alpha")

digit1(s) == SplitAt(s, RunLen(IsDigit, s), "Digit")

\* take(count): count is a usize; a negative i32 cast with `as usize` is at
\* least 2^63, more than any slice holds, so take fails on it.
take(count, s) ==
    IF count >= 0 /\ count <= Len(s)
    THEN Ok(Drop(s, count), Prefix(s, count))
    ELSE Err(s, "Eof")

\* none_of(list): one byte that is not in list, returned as a char.
none_of(list, s) ==
    IF s # <<>> /\ s[1] \notin list THEN Ok(Tail(s), s[1]) ELSE Err(s, "NoneOf")

char(c, s) == IF s # <<>> /\ s[1] = c THEN Ok(Tail(s), c) ELSE Err(s, "Char")

crlf(s) == IF Len(s) >= 2 /\ s[1] = CR /\ s[2] = LF
           THEN Ok(Drop(s, 2), <<CR, LF>>) ELSE Err(s, "CrLf")

unwrap_or(o, d) == IF o = None THEN d ELSE o[1]

(***************************************************************************)
(* src/raw.rs                                                              *)
(***************************************************************************)
\* str::parse::<i32> on a string of decimal digits: checked multiply-add.
RECURSIVE ParseDigits(_, _)
ParseDigits(s, a) ==
    IF s = <<>> THEN [ok |-> TRUE, val |-> a]
    ELSE IF a > (I32_MAX - (s[1] - ZERO)) \div 10
         THEN [ok |-> FALSE, val |-> 0]
         ELSE ParseDigits(Tail(s), a * 10 + (s[1] - ZERO))

parse_i32(s) == ParseDigits(s, 0)

\* The factor str_to_int multiplies by: sign.map_or(1, ...).
SignFactor(sign) ==
    CASE sign = None -> 1
      [] sign = Some(<<MINUS>>) -> -1
      [] sign = Some(<<PLUS>>) -> 1

\* Result::map of the parse result p.
MapSign(p, sign) ==
    IF p.ok THEN [ok |-> TRUE, val |-> p.val * SignFactor(sign)] ELSE p

str_to_int(s, sign) == MapSign(parse_i32(s), sign)

hex_val(b) == IF IsDigit(b) THEN b - 48 ELSE IF b >= 97 THEN b - 87 ELSE b - 55

\* u8::from_str_radix(s, 16) on two hex digits.
hex_str_to_int(s) == 16 * hex_val(s[1]) + hex_val(s[2])

\* signed_int_raw accepting a plus sign as well.
signed_int_raw_plus(s) ==
    Then(opt(alt(tag(<<MINUS>>, s), tag(<<PLUS>>, s)), s), LAMBDA sign :
    Then(digit1(sign.rest), LAMBDA d :
        Ok(d.rest, <<sign.out, d.out>>)))

signed_int_raw(s) ==
    Then(opt(tag(<<MINUS>>, s), s), LAMBDA sign :
    Then(digit1(sign.rest), LAMBDA d :
        Ok(d.rest, <<sign.out, d.out>>)))

hexbyte_raw(s) ==
    IF Len(s) >= 2 /\ is_hex_digit(s[1]) /\ is_hex_digit(s[2])
    THEN Ok(Drop(s, 2), Prefix(s, 2))
    ELSE Err(s, "TakeWhileMN")

hexbyte(s) == map(hexbyte_raw(s), hex_str_to_int)

\* map_res: an Err of the conversion v is ErrorKind::MapRes at the input s.
MapRes(r, v, s) == IF v.ok THEN Ok(r.rest, v.val) ELSE Err(s, "MapRes")

signed_int(s) ==
    Then(signed_int_raw(s), LAMBDA r :
        MapRes(r, str_to_int(r.out[2], r.out[1]), s))

Letters == {b \in 0..255 : IsAlpha(b)}

\* control_symbol_raw with the minus sign added to the excluded characters.
control_symbol_raw_no_minus(s) ==
    Then(tag(<<BSLASH>>, s), LAMBDA t :
        none_of({APOS, MINUS} \cup Letters, t.rest))

control_symbol_raw(s) ==
    Then(tag(<<BSLASH>>, s), LAMBDA t : none_of({APOS} \cup Letters, t.rest))

\* control_word_raw with alphanumeric1 in place of alpha1 for the name.
control_word_raw_alnum(s) ==
    Then(tag(<<BSLASH>>, s), LAMBDA t :
    Then(SplitAt(t.rest,
                 RunLen(LAMBDA b : IsAlpha(b) \/ IsDigit(b), t.rest),
                 "AlphaNumeric"), LAMBDA name :
    Then(opt(signed_int(name.rest), name.rest), LAMBDA arg :
    Then(opt(tag(<<SP>>, arg.rest), arg.rest), LAMBDA sp :
        Ok(sp.rest, <<name.out, arg.out>>)))))

\* control_word_raw without the optional trailing space.
control_word_raw_no_space(s) ==
    Then(tag(<<BSLASH>>, s), LAMBDA t :
    Then(alpha1(t.rest), LAMBDA name :
    Then(opt(signed_int(name.rest), name.rest), LAMBDA arg :
        Ok(arg.rest, <<name.out, arg.out>>))))

control_word_raw(s) ==
    Then(tag(<<BSLASH>>, s), LAMBDA t :
    Then(alpha1(t.rest), LAMBDA name :
    Then(opt(signed_int(name.rest), name.rest), LAMBDA arg :
    Then(opt(tag(<<SP>>, arg.rest), arg.rest), LAMBDA sp :
        Ok(sp.rest, <<name.out, arg.out>>)))))

\* control_word_hexbyte_raw absorbing a trailing space as control_word_raw does.
control_word_hexbyte_raw_space(s) ==
    Then(tag(<<BSLASH>>, s), LAMBDA t :
    Then(tag(<<APOS>>, t.rest), LAMBDA name :
    Then(hexbyte(name.rest), LAMBDA arg :
    Then(opt(tag(<<SP>>, arg.rest), arg.rest), LAMBDA sp :
        Ok(sp.rest, <<name.out, Some(arg.out)>>)))))

control_word_hexbyte_raw(s) ==
    Then(tag(<<BSLASH>>, s), LAMBDA t :
    Then(tag(<<APOS>>, t.rest), LAMBDA name :
    Then(hexbyte(name.rest), LAMBDA arg :
        Ok(arg.rest, <<name.out, Some(arg.out)>>))))

\* bin_len without the optional space after the length.
bin_len_no_space(s) == signed_int(s)

\* map(pair(signed_int, opt(tag(" "))), |(s, _)| s)
bin_len(s) ==
    Then(signed_int(s), LAMBDA n :
    Then(opt(tag(<<SP>>, n.rest), n.rest), LAMBDA sp :
        Ok(sp.rest, n.out)))

control_bin_raw(s) ==
    Then(tag(<<BSLASH>> \o BIN, s), LAMBDA t :
    Then(opt(bin_len(t.rest), t.rest), LAMBDA len :
        take(unwrap_or(len.out, 0), len.rest)))

\* rtf_text_raw built on many0: an empty run is accepted.
rtf_text_raw_many0(s) ==
    Ok(Drop(s, RunLen(LAMBDA b : b \notin {BSLASH, RBRACE, LBRACE, CR, LF}, s)),
       Prefix(s, RunLen(LAMBDA b : b \notin {BSLASH, RBRACE, LBRACE, CR, LF}, s)))

\* rtf_text_raw taking a single character instead of a run.
rtf_text_raw_one(s) ==
    SplitAt(s, IF s # <<>> /\ s[1] \notin {BSLASH, RBRACE, LBRACE, CR, LF}
               THEN 1 ELSE 0, "Many1")

TextStop == {BSLASH, RBRACE, LBRACE, CR, LF}

IsTextByte(b) == b \notin TextStop

\* recognize(many1(none_of("\\}{\r\n")))
rtf_text_raw(s) == SplitAt(s, RunLen(IsTextByte, s), "Many1")

start_group_raw(s) == char(LBRACE, s)

\* end_group_raw matching the opening brace.
end_group_raw_open(s) == char(LBRACE, s)

end_group_raw(s) == char(RBRACE, s)

\* newline_raw with the bare carriage return tried before CRLF.
newline_raw_cr_first(s) == alt(tag(<<CR>>, s), alt(tag(<<LF>>, s), crlf(s)))

newline_raw(s) == alt(crlf(s), alt(tag(<<LF>>, s), tag(<<CR>>, s)))

(***************************************************************************)
(* src/tokenizer.rs: the Token enum and its serializer.                    *)
(***************************************************************************)
ControlSymbol(c) == [type |-> "ControlSymbol", c |-> c]
ControlWord(name, arg) == [type |-> "ControlWord", name |-> name, arg |-> arg]
ControlBin(data) == [type |-> "ControlBin", data |-> data]
Text(data) == [type |-> "Text", data |-> data]
StartGroup == [type |-> "StartGroup"]
EndGroup == [type |-> "EndGroup"]
Newline == [type |-> "Newline"]

\* format!("{}", n) of a non-negative integer.
RECURSIVE FmtNat(_)
FmtNat(n) ==
    IF n < 10 THEN <<ZERO + n>> ELSE FmtNat(n \div 10) \o <<ZERO + (n % 10)>>

\* format!("{}", num) of an i32.
FmtInt(n) == IF n < 0 THEN <<MINUS>> \o FmtNat(0 - n) ELSE FmtNat(n)

\* format!("{}", c) of a char: its UTF-8 encoding (c is below U+0100 here).
FmtChar(c) == IF c < 128 THEN <<c>> ELSE <<192 + (c \div 64), 128 + (c % 64)>>

to_rtf(t) ==
    CASE t.type = "ControlSymbol" -> <<BSLASH>> \o FmtChar(t.c)
      [] t.type = "ControlWord" ->
            IF t.arg # None
            THEN <<BSLASH>> \o t.name \o FmtInt(t.arg[1])
            ELSE <<BSLASH>> \o t.name
      [] t.type = "ControlBin" ->
            <<BSLASH>> \o BIN \o FmtNat(Len(t.data)) \o <<SP>> \o t.data
      [] t.type = "Text" -> t.data
      [] t.type = "StartGroup" -> <<LBRACE>>
      [] t.type = "EndGroup" -> <<RBRACE>>
      [] t.type = "Newline" -> <<BSLASH, 114, BSLASH, 110>>

\* token_delimiter_after without the check of the next token.
token_delimiter_after_any(t, next_token) ==
    IF t.type = "ControlWord" THEN <<SP>> ELSE <<>>

token_delimiter_after(t, next_token) ==
    IF t.type = "ControlWord" /\ next_token.type = "Text" THEN <<SP>> ELSE <<>>

token_delimiter_before(t, prev_token) == token_delimiter_after(prev_token, t)

\* The bytes of a token sequence: to_rtf of each token, with
\* token_delimiter_after between each adjacent pair.
RECURSIVE to_rtf_stream(_)
to_rtf_stream(ts) ==
    IF ts = <<>> THEN <<>>
    ELSE IF Len(ts) = 1 THEN to_rtf(ts[1])
    ELSE to_rtf(ts[1]) \o token_delimiter_after(ts[1], ts[2])
         \o to_rtf_stream(Tail(ts))

(***************************************************************************)
(* src/tokenizer.rs: the token readers and their ordered alternation.      *)
(***************************************************************************)
read_control_hexbyte(s) ==
    map(control_word_hexbyte_raw(s), LAMBDA o : ControlWord(o[1], o[2]))

read_control_symbol(s) == map(control_symbol_raw(s), ControlSymbol)

read_control_word(s) ==
    map(control_word_raw(s), LAMBDA o : ControlWord(o[1], o[2]))

read_control_bin(s) == map(control_bin_raw(s), ControlBin)

read_newline(s) == map(newline_raw(s), LAMBDA o : Newline)

read_start_group(s) == map(start_group_raw(s), LAMBDA o : StartGroup)

read_end_group(s) == map(end_group_raw(s), LAMBDA o : EndGroup)

read_rtf_text(s) == map(rtf_text_raw(s), Text)

\* read_token trying the word directive before the binary run.
read_token_word_first(s) ==
    alt(read_control_hexbyte(s),
    alt(read_control_symbol(s),
    alt(read_control_word(s),
    alt(read_control_bin(s),
    alt(read_start_group(s),
    alt(read_end_group(s),
    alt(read_newline(s),
        read_rtf_text(s))))))))

read_token(s) ==
    alt(read_control_hexbyte(s),
    alt(read_control_symbol(s),
    alt(read_control_bin(s),
    alt(read_control_word(s),
    alt(read_start_group(s),
    alt(read_end_group(s),
    alt(read_newline(s),
        read_rtf_text(s))))))))

(***************************************************************************)
(* Inputs: concatenations of at most n chunks of a vocabulary.  Each       *)
(* specification below runs the same tokenizer on its own vocabulary.      *)
(***************************************************************************)
MaxChunks == 3
MaxBinChunks == 4
MaxWordChunks == 4
MaxHexChunks == 4
MaxIntChunks == 3

RECURSIVE Concat(_)
Concat(cs) == IF cs = <<>> THEN <<>> ELSE cs[1] \o Concat(Tail(cs))

Inputs(vocab, n) == {Concat(cs) : cs \in UNION {[1..k -> vocab] : k \in 0..n}}

\* \  \bin  \'  a  1  -  space  {  }  CR  LF
Vocab ==
    { <<BSLASH>>, <<BSLASH>> \o BIN, <<BSLASH, APOS>>, <<97>>, <<49>>,
      <<MINUS>>, <<SP>>, <<LBRACE>>, <<RBRACE>>, <<CR>>, <<LF>> }

\* \bin  \bin2  0  space  \  {  CR  a
VocabBin ==
    { <<BSLASH>> \o BIN, <<BSLASH>> \o BIN \o <<50>>, <<ZERO>>, <<SP>>,
      <<BSLASH>>, <<LBRACE>>, <<CR>>, <<97>> }

\* \a  b  -  +  0  2147483647  2147483648  space
VocabWord ==
    { <<BSLASH, 97>>, <<98>>, <<MINUS>>, <<PLUS>>, <<ZERO>>,
      <<50, 49, 52, 55, 52, 56, 51, 54, 52, 55>>,
      <<50, 49, 52, 55, 52, 56, 51, 54, 52, 56>>, <<SP>> }

\* \a  -  +  0  2147483647  2147483648
VocabInt ==
    { <<BSLASH, 97>>, <<MINUS>>, <<PLUS>>, <<ZERO>>,
      <<50, 49, 52, 55, 52, 56, 51, 54, 52, 55>>,
      <<50, 49, 52, 55, 52, 56, 51, 54, 52, 56>> }

\* \'  \  0  9  a  F  g  space
VocabHex ==
    { <<BSLASH, APOS>>, <<BSLASH>>, <<ZERO>>, <<57>>, <<97>>, <<70>>, <<103>>,
      <<SP>> }

(***************************************************************************)
(* read_token_stream / parse: the many0 loop over read_token, run on the   *)
(* input (pass 1) and then on the serialization of its tokens (pass 2).    *)
(***************************************************************************)
NoResult == [rest |-> <<>>, tokens |-> <<>>]

InitOn(S) ==
    /\ input \in S
    /\ i = input
    /\ acc = <<>>
    /\ pc = "loop"
    /\ pass = 1
    /\ first = NoResult

Init == InitOn(Inputs(Vocab, MaxChunks))

\* The Ok arm of many0's match on the result r of read_token: many0 fails
\* with ErrorKind::Many0 should the parser succeed without consuming.
Many0Ok(r) ==
    IF Len(r.rest) = Len(i)
    THEN /\ pc' = "many0_error"
         /\ UNCHANGED <<i, acc>>
    ELSE /\ i' = r.rest
         /\ acc' = Append(acc, r.out)
         /\ pc' = pc

\* One iteration of many0 in which read_token succeeds.
Many0Step ==
    /\ pc = "loop"
    /\ read_token(i).ok
    /\ Many0Ok(read_token(i))
    /\ UNCHANGED <<input, pass, first>>

\* The iteration in which read_token fails: many0 returns Ok((i, acc)).
Many0Return ==
    /\ pc = "loop"
    /\ ~read_token(i).ok
    /\ pc' = "done"
    /\ UNCHANGED <<input, i, acc, pass, first>>

\* The token sequence of the first pass is written back as RTF and parsed again.
Serialize ==
    /\ pc = "done"
    /\ pass = 1
    /\ first' = [rest |-> i, tokens |-> acc]
    /\ input' = to_rtf_stream(acc)
    /\ i' = input'
    /\ acc' = <<>>
    /\ pass' = 2
    /\ pc' = "loop"

Next == Many0Step \/ Many0Return \/ Serialize

Spec == Init /\ [][Next]_vars

InitBin == InitOn(Inputs(VocabBin, MaxBinChunks))
SpecBin == InitBin /\ [][Next]_vars

InitWord == InitOn(Inputs(VocabWord, MaxWordChunks))
SpecWord == InitWord /\ [][Next]_vars

InitHex == InitOn(Inputs(VocabHex, MaxHexChunks))
SpecHex == InitHex /\ [][Next]_vars

InitInt == InitOn(Inputs(VocabInt, MaxIntChunks))
SpecInt == InitInt /\ [][Next]_vars

\* The tokenizer run to completion: the loop of many0 is not interrupted.
\* This is weak fairness of Many0Loop, whose enabling condition is pc = "loop"
\* (Many0Step changes i and acc, or pc; Many0Return changes pc).
Many0Loop == Many0Step \/ Many0Return
FairSpec == Spec /\ ([]<>(pc # "loop") \/ []<><<Many0Loop>>_vars)

TypeOK ==
    /\ pc \in {"loop", "done", "many0_error"}
    /\ pass \in {1, 2}
    /\ \A k \in 1..Len(i) : i[k] \in 0..255

(***************************************************************************)
(* Properties.                                                             *)
(***************************************************************************)
Last(s) == s[Len(s)]

OnlyBytes(s, set) == \A k \in 1..Len(s) : s[k] \in set

\* C1: whenever the first pass consumed its input completely into tokens T,
\* parsing the serialization of T consumes it completely and yields T again.
RoundTrip ==
    (pass = 2 /\ pc = "done" /\ first.rest = <<>>)
        => (i = <<>> /\ acc = first.tokens)

\* C2: the serialization of the single token Newline is the two bytes CR LF,
\* whichever terminator the first pass consumed.
NewlineSerializesToCRLF ==
    (pass = 2 /\ first.tokens = <<Newline>>) => input = <<CR, LF>>

\* Number of positions of s where a CR is directly followed by an LF.
CrLfPairs(s) == Cardinality({k \in 1..(Len(s) - 1) : s[k] = CR /\ s[k + 1] = LF})

\* C3: an input of line-terminator bytes only is consumed completely into
\* Newline tokens, one per terminator with CR LF counted as one terminator
\* (so CR LF, LF and CR each give exactly one Newline), and the token is the
\* same value whichever variant was consumed.
NewlineRecognition ==
    (pc = "done" /\ input # <<>> /\ OnlyBytes(input, {CR, LF}))
        => /\ i = <<>>
           /\ Len(acc) = Len(input) - CrLfPairs(input)
           /\ \A k \in 1..Len(acc) : acc[k] = Newline

NewlineRecognitionWitness ==
    /\ pc = "done"
    /\ input = <<CR, LF>>
    /\ acc = <<Newline>>
    /\ i = <<>>

\* C9: an input of brace bytes only, balanced or not, is consumed completely
\* into one StartGroup per '{' and one EndGroup per '}', in input order.
UnbalancedGroupsTolerated ==
    (pc = "done" /\ OnlyBytes(input, {LBRACE, RBRACE}))
        => /\ i = <<>>
           /\ Len(acc) = Len(input)
           /\ \A k \in 1..Len(acc) :
                 acc[k] = IF input[k] = LBRACE THEN StartGroup ELSE EndGroup

UnbalancedGroupsWitness ==
    /\ pc = "done"
    /\ input = <<RBRACE, RBRACE, LBRACE>>
    /\ acc = <<EndGroup, EndGroup, StartGroup>>

\* Value of a run of decimal digits (short runs only).
RECURSIVE DecVal(_)
DecVal(ds) == IF ds = <<>> THEN 0 ELSE 10 * DecVal(Prefix(ds, Len(ds) - 1)) + (Last(ds) - 48)

StartsWith(s, t) == Len(s) >= Len(t) /\ Prefix(s, Len(t)) = t

\* The bytes after a \bin directive's digit run ds: one space is skipped.
AfterLength(s, ds) ==
    LET a == Drop(s, 4 + Len(ds))
    IN  IF a # <<>> /\ a[1] = SP THEN Tail(a) ELSE a

\* The digit run that directly follows \bin in s.
BinDigits(s) == Prefix(Drop(s, 4), RunLen(IsDigit, Drop(s, 4)))

\* \bin is followed by neither a digit nor a minus sign and a digit.
NoBinLength(s) ==
    LET a == Drop(s, 4)
    IN  \/ a = <<>>
        \/ /\ ~IsDigit(a[1])
           /\ ~(a[1] = MINUS /\ Len(a) >= 2 /\ IsDigit(a[2]))

BinaryOpacityStep ==
    (pc = "loop" /\ StartsWith(i, <<BSLASH>> \o BIN))
        => LET ds == BinDigits(i)
               body == AfterLength(i, ds)
           IN  /\ (ds # <<>> /\ Len(ds) <= 9 /\ Len(body) >= DecVal(ds))
                    => /\ acc' = Append(acc, ControlBin(Prefix(body, DecVal(ds))))
                       /\ i' = Drop(body, DecVal(ds))
               /\ NoBinLength(i)
                    => /\ acc' = Append(acc, ControlBin(<<>>))
                       /\ i' = Drop(i, 4)

TruncatedBinFails ==
    [][ (/\ pc = "loop"
         /\ StartsWith(i, <<BSLASH>> \o BIN)
         /\ BinDigits(i) # <<>>
         /\ Len(BinDigits(i)) <= 9
         /\ Len(AfterLength(i, BinDigits(i))) < DecVal(BinDigits(i)))
        => (pc' = "done" /\ acc' = acc /\ i' = i) ]_vars

\* A word directive at the head of s: backslash and at least one letter.
WordHead(s) == Len(s) >= 2 /\ s[1] = BSLASH /\ IsAlpha(s[2])
WordName(s) == Prefix(Tail(s), RunLen(IsAlpha, Tail(s)))
AfterName(s) == Drop(s, 1 + Len(WordName(s)))

\* C6: at a word directive directly followed by a digit run that exceeds the
\* i32 range, no token is produced and the many0 loop stops at that position.
OverflowRejected ==
    [][ (/\ pc = "loop"
         /\ WordHead(i)
         /\ digit1(AfterName(i)).ok
         /\ ~parse_i32(digit1(AfterName(i)).out).ok)
        => (pc' = "done" /\ acc' = acc /\ i' = i) ]_vars

HexDigits == <<48, 49, 50, 51, 52, 53, 54, 55, 56, 57, 97, 98, 99, 100, 101, 102>>
HexDigitsUpper == <<48, 49, 50, 51, 52, 53, 54, 55, 56, 57, 65, 66, 67, 68, 69, 70>>
IsHex(b) == \E v \in 1..16 : HexDigits[v] = b \/ HexDigitsUpper[v] = b
HexDigitValue(b) == (CHOOSE v \in 1..16 : HexDigits[v] = b \/ HexDigitsUpper[v] = b) - 1

IsHexEscape(t) == t.type = "ControlWord" /\ t.name = <<APOS>>

HexEscapeStep ==
    /\ (pc = "loop" /\ Len(i) >= 4 /\ i[1] = BSLASH /\ i[2] = APOS
            /\ IsHex(i[3]) /\ IsHex(i[4]))
         => /\ acc' = Append(acc, ControlWord(<<APOS>>,
                         Some(16 * HexDigitValue(i[3]) + HexDigitValue(i[4]))))
            /\ i' = Drop(i, 4)
    /\ (pc = "loop" /\ acc # <<>> /\ IsHexEscape(Last(acc)) /\ i # <<>> /\ i[1] = SP)
         => /\ Len(acc') = Len(acc) + 1
            /\ Last(acc').type = "Text"
            /\ Last(acc').data[1] = SP

\* C7: at backslash, apostrophe and two hex digits h1 h2 the next token is
\* ControlWord{name "'", arg Some(16*h1+h2)} and exactly those four bytes are
\* consumed; a space that directly follows the escape is the first byte of
\* the Text token that comes next.
HexEscape == [][HexEscapeStep]_vars

HexEscapeWitness ==
    /\ pass = 1
    /\ input = <<BSLASH, APOS, 57, 70, SP>>
    /\ acc = <<ControlWord(<<APOS>>, Some(159)), Text(<<SP>>)>>

WordSpaceStep ==
    (pc = "loop" /\ WordHead(i) /\ ~StartsWith(i, <<BSLASH>> \o BIN))
        => LET a == AfterName(i)
               n == signed_int(a)
               b == IF n.ok THEN n.rest ELSE a
           IN  /\ acc' = Append(acc, ControlWord(WordName(i),
                               IF n.ok THEN Some(n.out) ELSE None))
               /\ i' = IF b # <<>> /\ b[1] = SP THEN Tail(b) ELSE b

\* C8: a word directive consumes the backslash, the longest run of letters
\* as name, an optional signed integer as arg and then exactly one space if
\* the next byte is a space, with or without an integer; that space is in no
\* token and a second space stays in the input.
WordSpaceAbsorption == [][WordSpaceStep]_vars

WordSpaceAbsorptionWitness ==
    /\ pass = 1
    /\ input = <<BSLASH, 97, SP, SP>>
    /\ acc = <<ControlWord(<<97>>, None), Text(<<SP>>)>>
    /\ i = <<>>

\* C10 as stated: every ControlWord token has a non-empty name of ASCII
\* letters only.
ControlWordNameLetters ==
    \A k \in 1..Len(acc) :
        acc[k].type = "ControlWord"
            => /\ acc[k].name # <<>>
               /\ \A j \in 1..Len(acc[k].name) : IsAlpha(acc[k].name[j])

\* C10 amended: every ControlWord token has either a non-empty name of ASCII
\* letters only, or the name "'" of a hex escape with an argument in 0..255.
ControlWordNameShape ==
    \A k \in 1..Len(acc) :
        acc[k].type = "ControlWord"
            => \/ /\ acc[k].name # <<>>
                  /\ \A j \in 1..Len(acc[k].name) : IsAlpha(acc[k].name[j])
               \/ /\ acc[k].name = <<APOS>>
                  /\ acc[k].arg # None
                  /\ acc[k].arg[1] \in 0..255

ControlWordNameShapeWitness ==
    /\ pass = 1
    /\ pc = "done"
    /\ input = <<BSLASH, APOS, 49, 97>>
    /\ acc = <<ControlWord(<<APOS>>, Some(26))>>

\* The delimiter the rule of C11 asks for between tokens a and b.
RuleDelimiter(a, b) ==
    IF a.type = "ControlWord" /\ b.type = "Text" THEN <<SP>> ELSE <<>>

\* The bytes of ts with the delimiters of the rule between adjacent tokens.
RECURSIVE RuleStream(_)
RuleStream(ts) ==
    IF ts = <<>> THEN <<>>
    ELSE IF Len(ts) = 1 THEN to_rtf(ts[1])
    ELSE to_rtf(ts[1]) \o RuleDelimiter(ts[1], ts[2]) \o RuleStream(Tail(ts))

\* C11: for every pair of tokens (a, b), token_delimiter_after(a, b) is one
\* space exactly when a is a ControlWord and b is a Text and is empty for
\* every other pair, token_delimiter_before(b, a) is the same value, and the
\* bytes written for a token sequence carry exactly these delimiters.
DelimiterRule ==
    /\ \A j, k \in 1..Len(acc) :
          /\ token_delimiter_after(acc[j], acc[k]) = RuleDelimiter(acc[j], acc[k])
          /\ token_delimiter_before(acc[k], acc[j]) = RuleDelimiter(acc[j], acc[k])
    /\ pass = 2 => input = RuleStream(first.tokens)

DelimiterRuleWitness ==
    /\ pass = 2
    /\ first.tokens = <<ControlWord(<<97>>, None), Text(<<MINUS>>)>>
    /\ input = <<BSLASH, 97, SP, MINUS>>
    /\ acc = first.tokens

\* C12: when the first pass yields exactly a ControlWord w and a Text t, the
\* bytes to_rtf(w), one space, to_rtf(t) parse back to exactly [w, t] with
\* nothing left over.
DelimiterSafe ==
    (/\ pass = 2
     /\ pc = "done"
     /\ Len(first.tokens) = 2
     /\ first.tokens[1].type = "ControlWord"
     /\ first.tokens[2].type = "Text")
        => (acc = first.tokens /\ i = <<>>)

\* A hex escape at the head of s: backslash, apostrophe and two hex digits.
HexEscapeHead(s) ==
    Len(s) >= 4 /\ s[1] = BSLASH /\ s[2] = APOS /\ IsHex(s[3]) /\ IsHex(s[4])

ControlSymbolAnyNonLetter ==
    [][ /\ (pc = "loop" /\ Len(i) >= 2 /\ i[1] = BSLASH /\ ~IsAlpha(i[2])
               /\ ~HexEscapeHead(i))
            => (acc' = Append(acc, ControlSymbol(i[2])) /\ i' = Drop(i, 2))
        /\ (pc = "loop" /\ Len(i) >= 2 /\ i[1] = BSLASH /\ IsAlpha(i[2]))
            => (Len(acc') = Len(acc) + 1 /\ Last(acc').type # "ControlSymbol")
      ]_vars

IsSuffix(s, t) == Len(s) <= Len(t) /\ s = Drop(t, Len(t) - Len(s))

\* The tokens scanned left to right from s, and the suffix of s at the first
\* position where read_token fails.
RECURSIVE ScanFrom(_)
ScanNext(r, s) ==
    IF r.ok /\ Len(r.rest) < Len(s) THEN <<r.out>> \o ScanFrom(r.rest) ELSE <<>>
ScanFrom(s) == ScanNext(read_token(s), s)

RECURSIVE StopFrom(_)
StopNext(r, s) ==
    IF r.ok /\ Len(r.rest) < Len(s) THEN StopFrom(r.rest) ELSE s
StopFrom(s) == StopNext(read_token(s), s)

Partition ==
    /\ pc # "many0_error"
    /\ IsSuffix(i, input)
    /\ Len(acc) <= Len(input) - Len(i)
    /\ acc \o ScanFrom(i) = ScanFrom(input)
    /\ StopFrom(i) = StopFrom(input)
    /\ pc = "done" => /\ acc = ScanFrom(input)
                      /\ i = StopFrom(input)
                      /\ ~read_token(i).ok

ProgressStep ==
    (pc = "loop" /\ read_token(i).ok)
        => /\ pc' = "loop"
           /\ i' = read_token(i).rest
           /\ Len(i') < Len(i)
           /\ IsSuffix(i', i)
           /\ acc' = Append(acc, read_token(i).out)

\* C15: every successful read_token leaves a proper suffix of its input, so
\* parse terminates; parse never returns an error but the tokens scanned left
\* to right and, as remainder, the suffix of the input at the first position
\* where read_token fails.
ProgressAndPartition ==
    /\ []Partition
    /\ [][ProgressStep]_vars
    /\ (pc = "loop") ~> (pc = "done")

ProgressAndPartitionWitness ==
    /\ pass = 1
    /\ pc = "done"
    /\ input = <<LBRACE, 97, BSLASH>>
    /\ acc = <<StartGroup, Text(<<97>>)>>
    /\ i = <<BSLASH>>

NoAdjacentText(ts) ==
    \A k \in 1..(Len(ts) - 1) : ~(ts[k].type = "Text" /\ ts[k + 1].type = "Text")

TextShape(ts) ==
    \A k \in 1..Len(ts) :
        ts[k].type = "Text"
            => (ts[k].data # <<>> /\ OnlyBytes(ts[k].data, 0..255 \ TextStop))

TextStep ==
    (Len(acc') = Len(acc) + 1 /\ Last(acc').type = "Text")
        => /\ i = Last(acc').data \o i'
           /\ (i' = <<>> \/ i'[1] \in TextStop)

\* C16: every Text payload in the tokens of parse is non-empty and holds no
\* backslash, brace, CR or LF; no two Text tokens are adjacent; the byte after
\* a Text token's span is one of those five bytes or the end of the input.
TextRunsMaximal ==
    /\ [](TextShape(acc) /\ NoAdjacentText(acc))
    /\ [][TextStep]_vars

TextRunsMaximalWitness ==
    /\ pass = 1
    /\ pc = "done"
    /\ input = <<97, 49, LBRACE>>
    /\ acc = <<Text(<<97, 49>>), StartGroup>>

NameExtendsBin(t) ==
    /\ t.type = "ControlWord"
    /\ Len(t.name) > Len(BIN)
    /\ Prefix(t.name, Len(BIN)) = BIN

BinKeyStep ==
    (/\ pc = "loop"
     /\ Len(i) > Len(BIN) + 1
     /\ Prefix(i, Len(BIN) + 1) = <<BSLASH>> \o BIN
     /\ IsAlpha(i[Len(BIN) + 2]))
        => /\ acc' = Append(acc, ControlBin(<<>>))
           /\ i' = Drop(i, Len(BIN) + 1)
           /\ read_token(i').ok
           /\ read_token(i').out.type = "Text"
           /\ read_token(i').out.data[1] = i[Len(BIN) + 2]

\* C17: at \bin immediately followed by a letter read_token yields ControlBin
\* with an empty payload and leaves the letters, which become a Text token;
\* parse never emits a ControlWord whose name is bin followed by more letters.
BinKeysOnPrefix ==
    /\ [](\A k \in 1..Len(acc) : ~NameExtendsBin(acc[k]))
    /\ [][BinKeyStep]_vars

BinKeysOnPrefixWitness ==
    /\ pass = 1
    /\ pc = "done"
    /\ input = <<BSLASH>> \o BIN \o <<97>>
    /\ acc = <<ControlBin(<<>>), Text(<<97>>)>>

Suffixes(s) == {Drop(s, n) : n \in 0..Len(s)}

I32_MAX_TEXT == <<50, 49, 52, 55, 52, 56, 51, 54, 52, 55>>

RECURSIVE LexLeq(_, _)
LexLeq(a, b) ==
    \/ a = <<>>
    \/ a[1] < b[1]
    \/ (a[1] = b[1] /\ LexLeq(Tail(a), Tail(b)))

\* The digit run ds, leading zeros aside, is at most 2147483647.
FitsDigits(z) ==
    Len(z) < Len(I32_MAX_TEXT) \/ (Len(z) = Len(I32_MAX_TEXT) /\ LexLeq(z, I32_MAX_TEXT))
FitsI32(ds) == FitsDigits(Drop(ds, RunLen(LAMBDA b : b = ZERO, ds)))

I32_MIN_TEXT == <<MINUS, 50, 49, 52, 55, 52, 56, 51, 54, 52, 56>>

\* What signed_int is to return on s: the value of the digit run after an
\* optional minus sign, negated under the sign, when that value fits i32;
\* an error at the missing digits, or at s when the value does not fit.
SignedIntOf(s, r) ==
    LET neg == s # <<>> /\ s[1] = MINUS
        body == IF neg THEN Tail(s) ELSE s
        n == RunLen(IsDigit, body)
        v == DecVal(Prefix(body, n))
    IN  IF n >= 1 /\ FitsI32(Prefix(body, n))
        THEN /\ r.ok
             /\ r.out = (IF neg THEN 0 - v ELSE v)
             /\ r.rest = Drop(body, n)
             /\ r.out >= 0 - I32_MAX
             /\ r.out <= I32_MAX
             /\ (neg => r.out <= 0)
             /\ (~neg => r.out >= 0)
        ELSE IF n = 0 THEN r = Err(body, "Digit") ELSE r = Err(s, "MapRes")

\* C18: signed_int parses the digit run as a non-negative i32 and negates
\* afterwards: accepted results lie in -2147483647..2147483647, a leading plus
\* sign is rejected, and -2147483648 is rejected without consuming input.
SignedIntRange ==
    \A s \in Suffixes(input) :
        /\ SignedIntOf(s, signed_int(s))
        /\ (s # <<>> /\ s[1] = PLUS) => ~signed_int(s).ok
        /\ IsSuffix(I32_MIN_TEXT, s) /\ Len(s) = Len(I32_MIN_TEXT)
            => (signed_int(s) = Err(s, "MapRes"))

SignedIntRangeWitness ==
    /\ pass = 1
    /\ pc = "done"
    /\ input = <<BSLASH, 97>> \o I32_MIN_TEXT
    /\ acc = <<ControlWord(<<97>>, None), Text(I32_MIN_TEXT)>>

====
